---------------------------- MODULE Spec2Model ----------------------------
(***************************************************************************)
(* Model of scripts/embed_service.py: a FastAPI application with one       *)
(* route, POST /embed, whose handler reads the "text" key of the JSON      *)
(* object body, passes it to SentenceTransformer.encode and returns the    *)
(* result of ndarray.tolist().                                             *)
(*                                                                         *)
(* The handler is a plain "def", so the framework runs each call on a      *)
(* worker thread: several calls may be between two of its lines at once.   *)
(* Each request is therefore a small process with a program counter; the   *)
(* only object they share is the module-level "model".                     *)
(*                                                                         *)
(* JSON values are records [kind, items]: a string s is                    *)
(* [kind |-> "str", items |-> <<s>>], a list of strings ss is              *)
(* [kind |-> "list", items |-> ss]; null, a number and a non-empty object  *)
(* carry no items (the handler and the library branch on the type only).   *)
(* An ndarray is [ndim, rows]; a one-dimensional array has one row.        *)
(***************************************************************************)
EXTENDS Integers, Sequences, FiniteSets

VARIABLES phase, model, loads, req

vars == <<phase, model, loads, req>>

(* ------------------------------ bounds -------------------------------- *)

\* Number of requests the service receives in one run.
MaxReq == 2

\* Stand-in for the embedding dimension of the model (384 for the real one).
EmbedDim == 3

(* --------------------------- JSON values ------------------------------ *)

Str(s) == [kind |-> "str", items |-> <<s>>]

List(ss) == [kind |-> "list", items |-> ss]

Null == [kind |-> "null", items |-> <<>>]

Num == [kind |-> "num", items |-> <<>>]

Obj == [kind |-> "obj", items |-> <<>>]

Unset == [kind |-> "unset", items |-> <<>>]

Texts == {"", "hello"}

Lists == {<<"hello">>, <<"hello", "">>}

JVals == {Str(s) : s \in Texts} \cup {List(ss) : ss \in Lists} \cup {Null, Num, Obj}

Keys == {"text", "lang"}

\* Values the key other than "text" takes in the requests of the model.
OtherVals == {Str("hello")}

\* A JSON object: a function from the keys it holds to their values.
Payloads ==
    {p \in UNION {[D -> JVals] : D \in SUBSET Keys} :
        "lang" \in DOMAIN p => p["lang"] \in OtherVals}

NoPayload == [k \in {} |-> Unset]

Malformed == [wellformed |-> FALSE, obj |-> NoPayload]

Object(p) == [wellformed |-> TRUE, obj |-> p]

Bodies == {Malformed} \cup {Object(p) : p \in Payloads}

(* ------------------------- responses ---------------------------------- *)

NoResp == [kind |-> "none", rows |-> <<>>]

ErrorBody == [kind |-> "error", rows |-> <<>>]

(* ------------------ the framework's body binding ---------------------- *)

\* A body that is no JSON is bound as an empty object instead of rejected.
BindLenient(b) == [ok |-> TRUE, payload |-> b.obj]

\* "payload: dict": the framework parses the body and binds it to payload;
\* a body it cannot parse never reaches the handler.
Bind(b) == [ok |-> b.wellformed, payload |-> b.obj]

(* --------------------------- dict.get --------------------------------- *)

\* payload.get("txt", ""): the key looked up is never there.
GetWrongKey(p, key, default) == default

\* payload.get("text"): a missing key yields None.
GetNoDefault(p, key, default) == IF key \in DOMAIN p THEN p[key] ELSE Null

\* payload.get("text", payload.get("lang", "")): another key is consulted.
GetFallback(p, key, default) ==
    IF key \in DOMAIN p THEN p[key]
    ELSE IF "lang" \in DOMAIN p THEN p["lang"] ELSE default

\* payload.get("text") or "": a falsy value is replaced by the default.
GetOrDefault(p, key, default) ==
    IF key \in DOMAIN p /\ p[key] # Null THEN p[key] ELSE default

\* dict.get(key, default)
Get(p, key, default) == IF key \in DOMAIN p THEN p[key] ELSE default

(* ----------------------------- the model ------------------------------ *)

ModelName == "all-MiniLM-L6-v2"

NoModel == [name |-> "", instance |-> 0]

\* SentenceTransformer(ModelName): the n-th instance constructed.
SentenceTransformer(n) == [name |-> ModelName, instance |-> n]

\* The library's map from a sentence to numbers: a fixed function of the
\* weights (named by m.name) and the sentence, different for different
\* sentences.
TextCode(s) == IF s = "" THEN 0 ELSE 1

EncodeStr(m, s) == [i \in 1..EmbedDim |-> 10 * TextCode(s) + i]

\* encode() takes a sentence or a list of sentences. Anything without a
\* length is wrapped as one sentence and then fails in tokenization, an
\* object fails when indexed by position.
CanEncode(x) == x.kind \in {"str", "list"}

ExcOf(x) == IF x.kind = "obj" THEN "KeyError" ELSE "TypeError"

\* The result depends on how many requests the service has finished.
EncodeDrift(m, x) ==
    LET d == Cardinality({r \in DOMAIN req : req[r].pc = "done"})
    IN  IF x.kind = "str"
        THEN [ndim |-> 1,
              rows |-> <<[i \in 1..EmbedDim |-> EncodeStr(m, x.items[1])[i] + d]>>]
        ELSE [ndim |-> 2,
              rows |-> [j \in 1..Len(x.items) |-> EncodeStr(m, x.items[j])]]

\* model.encode(x): a one-dimensional array for a sentence, one row per
\* sentence for a list.
Encode(m, x) ==
    IF x.kind = "str"
    THEN [ndim |-> 1, rows |-> <<EncodeStr(m, x.items[1])>>]
    ELSE [ndim |-> 2,
          rows |-> [j \in 1..Len(x.items) |-> EncodeStr(m, x.items[j])]]

\* ndarray.tolist(): a flat list of numbers for a one-dimensional array, a
\* list of lists for a two-dimensional one.
ToList(a) ==
    [kind |-> IF a.ndim = 1 THEN "array" ELSE "array_of_arrays",
     rows |-> a.rows]

(* ------------------------------ state --------------------------------- *)

Reqs == 1..MaxReq

Idle ==
    [pc |-> "idle", body |-> Malformed, payload |-> NoPayload,
     text |-> Unset, encArg |-> Unset, calls |-> 0, exc |-> "none",
     vec |-> NoResp, status |-> 0, resp |-> NoResp, sent |-> 0]

Init ==
    /\ phase = "import"
    /\ model = NoModel
    /\ loads = 0
    /\ req = [r \in Reqs |-> Idle]

\* Requests are numbered in the order they arrive.
Arrives(r) ==
    /\ phase = "serving"
    /\ req[r].pc = "idle"
    /\ \A q \in Reqs : q < r => req[q].pc # "idle"

(* --------------------------- process start ---------------------------- *)

\* model = SentenceTransformer("all-MiniLM-L6-v2"), at import.
LoadModel ==
    /\ phase = "import"
    /\ model' = SentenceTransformer(loads + 1)
    /\ loads' = loads + 1
    /\ phase' = "loaded"
    /\ UNCHANGED req

\* uvicorn.run(app, ...): requests are accepted from here on.
Run ==
    /\ phase = "loaded"
    /\ phase' = "serving"
    /\ UNCHANGED <<model, loads, req>>

(* ----------------------------- a request ------------------------------ *)

\* The body does not bind to "payload: dict": the framework answers with a
\* validation error and the handler is not called.
Reject(r, b) ==
    /\ Arrives(r)
    /\ ~Bind(b).ok
    /\ req' = [req EXCEPT ![r] =
                 [@ EXCEPT !.pc = "done", !.body = b, !.status = 422,
                           !.resp = ErrorBody, !.sent = @ + 1]]
    /\ UNCHANGED <<phase, model, loads>>

\* embed(payload) is called on a worker thread.
Accept(r, b) ==
    /\ Arrives(r)
    /\ Bind(b).ok
    /\ req' = [req EXCEPT ![r] =
                 [@ EXCEPT !.pc = "line11", !.body = b,
                           !.payload = Bind(b).payload]]
    /\ UNCHANGED <<phase, model, loads>>

\* text = payload.get("text", "")
GetText(r) ==
    /\ req[r].pc = "line11"
    /\ req' = [req EXCEPT ![r] =
                 [@ EXCEPT !.pc = "line12",
                           !.text = Get(req[r].payload, "text", Str(""))]]
    /\ UNCHANGED <<phase, model, loads>>

\* The model is constructed again for the request.
EncodeStartReload(r) ==
    /\ req[r].pc = "line12"
    /\ req' = [req EXCEPT ![r] =
                 [@ EXCEPT !.pc = "encoding", !.encArg = req[r].text,
                           !.calls = @ + 1]]
    /\ model' = SentenceTransformer(loads + 1)
    /\ loads' = loads + 1
    /\ UNCHANGED phase

\* model.encode(text) is entered.
EncodeStart(r) ==
    /\ req[r].pc = "line12"
    /\ req' = [req EXCEPT ![r] =
                 [@ EXCEPT !.pc = "encoding", !.encArg = req[r].text,
                           !.calls = @ + 1]]
    /\ UNCHANGED <<phase, model, loads>>

\* The argument is kept in a module-level variable: the call encodes the
\* argument of the request that entered encode last.
EncodeReturnShared(r) ==
    LET last == CHOOSE q \in Reqs :
                    /\ req[q].encArg # Unset
                    /\ \A p \in Reqs : req[p].encArg # Unset => p <= q
    IN  /\ req[r].pc = "encoding"
        /\ CanEncode(req[last].encArg)
        /\ req' = [req EXCEPT ![r] =
                     [@ EXCEPT !.pc = "line13",
                               !.vec = ToList(Encode(model, req[last].encArg))]]
        /\ UNCHANGED <<phase, model, loads>>

\* vec = model.encode(text).tolist(), when encode returns.
EncodeReturn(r) ==
    /\ req[r].pc = "encoding"
    /\ CanEncode(req[r].encArg)
    /\ req' = [req EXCEPT ![r] =
                 [@ EXCEPT !.pc = "line13",
                           !.vec = ToList(Encode(model, req[r].encArg))]]
    /\ UNCHANGED <<phase, model, loads>>

\* The call is made again after it raised.
EncodeRaiseRetry(r) ==
    /\ req[r].pc = "encoding"
    /\ ~CanEncode(req[r].encArg)
    /\ req' = [req EXCEPT ![r] =
                 IF req[r].calls < 2
                 THEN [@ EXCEPT !.pc = "line12"]
                 ELSE [@ EXCEPT !.pc = "raised", !.exc = ExcOf(req[r].encArg)]]
    /\ UNCHANGED <<phase, model, loads>>

\* model.encode(text) raises on an argument it cannot encode.
EncodeRaise(r) ==
    /\ req[r].pc = "encoding"
    /\ ~CanEncode(req[r].encArg)
    /\ req' = [req EXCEPT ![r] =
                 [@ EXCEPT !.pc = "raised", !.exc = ExcOf(req[r].encArg)]]
    /\ UNCHANGED <<phase, model, loads>>

\* model.encode(text) fails inside the library (memory, device).
EncodeFault(r) ==
    /\ req[r].pc = "encoding"
    /\ req' = [req EXCEPT ![r] =
                 [@ EXCEPT !.pc = "raised", !.exc = "RuntimeError"]]
    /\ UNCHANGED <<phase, model, loads>>

\* return vec: the framework serializes the list with status 200.
Return(r) ==
    /\ req[r].pc = "line13"
    /\ req' = [req EXCEPT ![r] =
                 [@ EXCEPT !.pc = "done", !.status = 200,
                           !.resp = req[r].vec, !.sent = @ + 1]]
    /\ UNCHANGED <<phase, model, loads>>

\* The handler catches the exception and answers with an empty list.
PropagateSwallowed(r) ==
    /\ req[r].pc = "raised"
    /\ req' = [req EXCEPT ![r] =
                 [@ EXCEPT !.pc = "done", !.status = 200,
                           !.resp = [kind |-> "array", rows |-> <<<<>>>>],
                           !.sent = @ + 1]]
    /\ UNCHANGED <<phase, model, loads>>

\* No try/except in the handler: the exception leaves it and the framework
\* answers with its internal server error.
Propagate(r) ==
    /\ req[r].pc = "raised"
    /\ req' = [req EXCEPT ![r] =
                 [@ EXCEPT !.pc = "done", !.status = 500,
                           !.resp = ErrorBody, !.sent = @ + 1]]
    /\ UNCHANGED <<phase, model, loads>>

(* -------------------------- specifications ---------------------------- *)

Handler(r) ==
    \/ GetText(r)
    \/ EncodeStart(r)
    \/ EncodeReturn(r)
    \/ EncodeRaise(r)
    \/ Return(r)
    \/ Propagate(r)

Next ==
    \/ LoadModel
    \/ Run
    \/ \E r \in Reqs, b \in Bodies : Reject(r, b)
    \/ \E r \in Reqs, b \in Bodies : Accept(r, b)
    \/ \E r \in Reqs : Handler(r)

\* The service when the library does not fail on input it can encode.
Spec == Init /\ [][Next]_vars

FaultNext ==
    \/ Next
    \/ \E r \in Reqs : EncodeFault(r)

\* The service when a call of encode may also fail inside the library.
FaultSpec == Init /\ [][FaultNext]_vars

\* The bodies without a key other than "text": one of each way a request
\* can run through the handler.
LiveBodies == {b \in Bodies : "lang" \notin DOMAIN b.obj}

LiveNext ==
    \/ LoadModel
    \/ Run
    \/ \E r \in Reqs, b \in LiveBodies : Reject(r, b)
    \/ \E r \in Reqs, b \in LiveBodies : Accept(r, b)
    \/ \E r \in Reqs : Handler(r)
    \/ \E r \in Reqs : EncodeFault(r)

\* A worker thread that can take a step eventually takes one, and a call of
\* encode eventually returns or raises.
LiveSpec ==
    /\ Init
    /\ [][LiveNext]_vars
    /\ WF_vars(LoadModel)
    /\ WF_vars(Run)
    /\ \A r \in Reqs : WF_vars(Handler(r) \/ EncodeFault(r))

(* ------------------------------ claims -------------------------------- *)

Done(r) == req[r].pc = "done"

\* The handler was called for the request.
Accepted(r) == req[r].pc # "idle" /\ req[r].body.wellformed

HasText(r) == "text" \in DOMAIN req[r].body.obj

TextOf(r) == req[r].body.obj["text"]

Outcome(r) == [status |-> req[r].status, resp |-> req[r].resp]

\* What the handler answers to a body when it is the only request.
ServedAlone(b) ==
    IF ~b.wellformed THEN [status |-> 422, resp |-> ErrorBody]
    ELSE LET t == IF "text" \in DOMAIN b.obj THEN b.obj["text"] ELSE Str("")
         IN  IF t.kind = "str"
             THEN [status |-> 200,
                   resp |-> [kind |-> "array", rows |-> <<EncodeStr(model, t.items[1])>>]]
             ELSE IF t.kind = "list"
             THEN [status |-> 200,
                   resp |-> [kind |-> "array_of_arrays",
                             rows |-> [j \in 1..Len(t.items) |->
                                          EncodeStr(model, t.items[j])]]]
             ELSE [status |-> 500, resp |-> ErrorBody]

\* C1: a finished request whose body is a JSON object with a string under
\* "text" was answered with status 200 and a flat array of exactly EmbedDim
\* numbers, the model's encoding of that string.
C1_StringTextGivesVector ==
    \A r \in Reqs :
        (Done(r) /\ Accepted(r) /\ HasText(r) /\ TextOf(r).kind = "str") =>
            /\ req[r].status = 200
            /\ req[r].resp.kind = "array"
            /\ Len(req[r].resp.rows) = 1
            /\ Len(req[r].resp.rows[1]) = EmbedDim
            /\ req[r].resp.rows[1] = EncodeStr(model, TextOf(r).items[1])

C1_Witness ==
    \E r \in Reqs :
        /\ Done(r) /\ Accepted(r) /\ HasText(r)
        /\ TextOf(r) = Str("hello")
        /\ req[r].status = 200

\* C2: a finished request whose JSON object has no "text" key was answered
\* with status 200 and the encoding of the empty string, the same answer as
\* a request whose "text" is the empty string.
C2_MissingTextIsEmptyString ==
    \A r \in Reqs :
        (Done(r) /\ Accepted(r) /\ ~HasText(r)) =>
            /\ req[r].status = 200
            /\ req[r].resp = [kind |-> "array", rows |-> <<EncodeStr(model, "")>>]
            /\ \A q \in Reqs :
                  (Done(q) /\ Accepted(q) /\ HasText(q) /\ TextOf(q) = Str(""))
                      => Outcome(q) = Outcome(r)

C2_Witness ==
    \E r, q \in Reqs :
        /\ Done(r) /\ Accepted(r) /\ ~HasText(r)
        /\ Done(q) /\ Accepted(q) /\ HasText(q) /\ TextOf(q) = Str("")
        /\ req[r].status = 200

\* C3: a request whose body is not JSON is never answered with status 200
\* and encode is never called for it.
C3_MalformedBodyRejected ==
    \A r \in Reqs :
        (req[r].pc # "idle" /\ ~req[r].body.wellformed) =>
            /\ req[r].status # 200
            /\ req[r].calls = 0
            /\ req[r].encArg = Unset

C3_Witness ==
    \E r \in Reqs :
        /\ Done(r) /\ ~req[r].body.wellformed
        /\ req[r].status = 422
        /\ \E q \in Reqs : q < r /\ Done(q) /\ req[q].status = 200

C5_OnlyTextKeyConsulted ==
    \A r, q \in Reqs :
        (Done(r) /\ Done(q) /\ Accepted(r) /\ Accepted(q)
            /\ HasText(r) = HasText(q)
            /\ (HasText(r) => TextOf(r) = TextOf(q))) => Outcome(r) = Outcome(q)

C5_Witness ==
    \E r, q \in Reqs :
        /\ Done(r) /\ Done(q) /\ Accepted(r) /\ Accepted(q)
        /\ ~HasText(r) /\ ~HasText(q)
        /\ "lang" \in DOMAIN req[r].body.obj
        /\ "lang" \notin DOMAIN req[q].body.obj

Failed(r) == req[r].status = 500 /\ req[r].resp = ErrorBody /\ req[r].exc # "none"

\* C6 as stated: a finished request whose "text" is not a string, or whose
\* call of encode failed, was not answered with 200 but with the framework's
\* server error.
C6_NonStringNever200 ==
    \A r \in Reqs :
        (Done(r) /\ Accepted(r)
            /\ ((HasText(r) /\ TextOf(r).kind # "str") \/ req[r].exc # "none"))
                => Failed(r)

\* C6 amended: a finished request whose "text" is null, a number or an
\* object, or whose call of encode failed, was answered with the framework's
\* server error; a list of strings is encoded and answered with 200.
C6_UnencodableNever200 ==
    \A r \in Reqs :
        /\ (Done(r) /\ Accepted(r)
              /\ ((HasText(r) /\ TextOf(r).kind \in {"null", "num", "obj"})
                    \/ req[r].exc # "none")) => Failed(r)
        /\ (Done(r) /\ Accepted(r) /\ HasText(r) /\ TextOf(r).kind = "list"
              /\ req[r].exc = "none") =>
                 (req[r].status = 200 /\ req[r].resp.kind = "array_of_arrays")

C6_Witness ==
    \E r, q \in Reqs :
        /\ Done(r) /\ Accepted(r) /\ HasText(r) /\ TextOf(r) = Null
        /\ req[r].status = 500
        /\ Done(q) /\ Accepted(q) /\ HasText(q) /\ TextOf(q) = Str("hello")
        /\ req[q].exc = "RuntimeError" /\ req[q].status = 500

\* C7: the model is constructed once, before the service accepts requests;
\* from then on the instance stays the same one, and a step of a request
\* changes that request's record and nothing else.
C7_ModelLoadedOnce ==
    /\ [](phase = "serving" => (loads = 1 /\ model = SentenceTransformer(1)))
    /\ [](\A r \in Reqs : req[r].pc # "idle" => phase = "serving")
    /\ [][phase # "import" => UNCHANGED <<model, loads>>]_vars
    /\ [][req' # req =>
            /\ UNCHANGED <<phase, model, loads>>
            /\ \E r \in Reqs : \A q \in Reqs \ {r} : req'[q] = req[q]]_vars

C7_Witness ==
    \E r, q \in Reqs :
        /\ Done(r) /\ req[r].status = 200
        /\ Done(q) /\ req[q].status = 500
        /\ loads = 1 /\ model = SentenceTransformer(1)

\* C8: whatever the interleaving of the requests' steps, a finished request
\* was answered as it would have been alone, and the argument and result of
\* its call of encode are those of its own text.
C8_NoCrossTalk ==
    \A r \in Reqs :
        /\ Done(r) => Outcome(r) = ServedAlone(req[r].body)
        /\ req[r].pc = "line13" =>
              /\ req[r].encArg = req[r].text
              /\ [status |-> 200, resp |-> req[r].vec] = ServedAlone(req[r].body)

C8_Witness ==
    /\ Done(2) /\ req[2].text = Str("hello") /\ req[2].status = 200
    /\ req[1].pc = "line13" /\ req[1].text = Str("")

C9_OneCallOneResponse ==
    \A r \in Reqs :
        /\ req[r].calls <= 1
        /\ req[r].sent <= 1
        /\ req[r].sent = 1 <=> Done(r)
        /\ (Accepted(r) /\ Done(r)) =>
              /\ req[r].calls = 1
              /\ req[r].exc # "none" \/ req[r].vec # NoResp
        /\ (Accepted(r) /\ req[r].pc \in {"line11", "line12"}) => req[r].calls = 0

\* C9: an accepted request causes one call of encode and one response, sent
\* after the call has returned or raised; and when every call of encode
\* completes, every accepted request is eventually answered.
C9_ExactlyOnceAndAnswered ==
    /\ []C9_OneCallOneResponse
    /\ \A r \in Reqs : (Accepted(r) ~> (Done(r) /\ req[r].sent = 1))

C9_Witness ==
    \E r, q \in Reqs :
        /\ Done(r) /\ Accepted(r) /\ req[r].exc = "RuntimeError"
        /\ req[r].calls = 1 /\ req[r].sent = 1
        /\ Done(q) /\ Accepted(q) /\ req[q].status = 200 /\ req[q].calls = 1

\* C10: when the "text" key is present its value is the argument of encode,
\* whatever it is; the empty string is passed only when the key is absent or
\* holds the empty string, so a null "text" is not answered like a missing one.
C10_DefaultOnlyWhenAbsent ==
    \A r \in Reqs :
        /\ (Accepted(r) /\ req[r].calls > 0 /\ HasText(r)) =>
              req[r].encArg = TextOf(r)
        /\ (Accepted(r) /\ req[r].calls > 0 /\ req[r].encArg = Str("")) =>
              (~HasText(r) \/ TextOf(r) = Str(""))
        /\ \A q \in Reqs :
              (Done(r) /\ Accepted(r) /\ HasText(r) /\ TextOf(r) = Null
                  /\ Done(q) /\ Accepted(q) /\ ~HasText(q)) =>
                     Outcome(r) # Outcome(q)

C10_Witness ==
    \E r, q \in Reqs :
        /\ Done(r) /\ Accepted(r) /\ HasText(r) /\ TextOf(r) = Null
        /\ req[r].encArg = Null /\ req[r].status = 500
        /\ Done(q) /\ Accepted(q) /\ ~HasText(q) /\ req[q].status = 200

=============================================================================
